---- MODULE Spec2Model ----
(***************************************************************************)
(* Branch-coverage reporting pipeline of tools/plot_coverage.py and        *)
(* tools/plot_graphs_only.py: the log parser, the aggregator that walks    *)
(* coverage/<fuzzer>/<target>/<campaign>/coverage.log and writes one table *)
(* per (target, fuzzer), and the two chart renderers that read the tables  *)
(* back.                                                                   *)
(*                                                                         *)
(* Representation.  A Python str is a sequence of one-character strings.   *)
(* A float is the exact number of hundredths it denotes (an integer); an   *)
(* average before formatting is the exact fraction [num, den]; axis limits *)
(* are in ten-thousandths, so that 0.25 * x and 0.01 * x stay integral.    *)
(* None is the record None, a value v that is not None is Some(v).         *)
(***************************************************************************)
EXTENDS Integers, Sequences, FiniteSets, TLC

VARIABLES
    entry,          \* the entry point that was started
    dirs,           \* the directories that exist under the work directory
    pc,             \* where the running program is
    coverage_log,   \* the file handed to extract_branch_hit_counts (parser runs)
    branch_counts,  \* what extract_branch_hit_counts returned
    tree,           \* the coverage directory: fuzzer entries in iterdir order
    fi,             \* index of the fuzzer entry the walk is at
    ti,             \* index of the target entry the walk is at
    data_files,     \* the data directory: file name -> content
    data_summary,   \* <<target, fuzzer>> -> number of campaigns
    files_created,  \* the aggregator's counter
    writes,         \* every open(output_path, 'w') of the run, in order
    gi,             \* index into the sorted data files / sorted targets
    graphs,         \* the progress charts saved, in order
    target_fuzzers, \* plot_comparison_graphs' dict, as a sequence of entries
    comparisons     \* the comparison charts saved, in order

vars == <<entry, dirs, pc, coverage_log, branch_counts, tree, fi, ti, data_files, data_summary,
          files_created, writes, gi, graphs, target_fuzzers, comparisons>>

-----------------------------------------------------------------------------
(* Bounds of the model *)

MaxLogLines == 6
MaxCampaigns == 2
MaxFuzzers == 2
MaxTargets == 1
MaxFiles == 2

-----------------------------------------------------------------------------
(* Python values *)

None == [isNone |-> TRUE, val |-> <<>>]
Some(v) == [isNone |-> FALSE, val |-> v]

SeqsUpTo(S, n) == UNION {[1..k -> S] : k \in 0..n}

Range(s) == {s[i] : i \in 1..Len(s)}

\* s[i-1:] of a sequence
DropFirst(s, n) == IF n >= Len(s) THEN <<>> ELSE SubSeq(s, n + 1, Len(s))

\* s[:n] of a sequence
TakeFirst(s, n) == IF n >= Len(s) THEN s ELSE SubSeq(s, 1, n)

StartsWithAt(s, i, p) ==
    /\ i >= 1
    /\ i + Len(p) - 1 <= Len(s)
    /\ \A k \in 1..Len(p) : s[i + k - 1] = p[k]

EndsWith(s, p) == Len(p) <= Len(s) /\ StartsWithAt(s, Len(s) - Len(p) + 1, p)

Digits == <<"0", "1", "2", "3", "4", "5", "6", "7", "8", "9">>

IsDigit(c) == \E i \in 1..Len(Digits) : Digits[i] = c

DigitVal(c) == (CHOOSE i \in 1..Len(Digits) : Digits[i] = c) - 1

\* int(s) succeeds: the model's labels are made of digits and letters only
IsInt(s) == Len(s) > 0 /\ \A i \in 1..Len(s) : IsDigit(s[i])

RECURSIVE IntOf(_)
\* int(s) of a digit string
IntOf(s) ==
    IF s = <<>> THEN 0
    ELSE 10 * IntOf(SubSeq(s, 1, Len(s) - 1)) + DigitVal(s[Len(s)])

RECURSIVE StrOf(_)
\* f"{n}" of a non-negative int
StrOf(n) ==
    IF n < 10 THEN <<Digits[n + 1]>>
    ELSE StrOf(n \div 10) \o <<Digits[(n % 10) + 1]>>

RECURSIVE DigitRun(_, _)
\* how many digits stand at s[i], s[i+1], ...: what a greedy \d+ takes
DigitRun(s, i) ==
    IF i <= Len(s) /\ IsDigit(s[i]) THEN 1 + DigitRun(s, i + 1) ELSE 0

-----------------------------------------------------------------------------
(* Log Parser: extract_branch_hit_counts *)

FirstBranchLine == 2
GroupSize == 3

\* r'\((\d+) of \d+ branches\)' matched with its "(" at position i
PatternAt(line, i) ==
    LET d1 == DigitRun(line, i + 1)
        j  == i + 1 + d1
        d2 == DigitRun(line, j + 4)
    IN  /\ i <= Len(line)
        /\ line[i] = "("
        /\ d1 >= 1
        /\ StartsWithAt(line, j, <<" ", "o", "f", " ">>)
        /\ d2 >= 1
        /\ StartsWithAt(line, j + 4 + d2, <<" ", "b", "r", "a", "n", "c", "h", "e", "s", ")">>)

\* re.search(pattern, line): the leftmost match, group(1) its first number
re_search(line) ==
    LET at == {i \in 1..Len(line) : PatternAt(line, i)}
    IN  IF at = {} THEN None
        ELSE LET i == CHOOSE m \in at : \A n \in at : m <= n
             IN  Some(SubSeq(line, i + 1, i + DigitRun(line, i + 1)))

RECURSIVE ScanBranchLines(_, _)
\* the loop over range(2, len(lines), 3), from 1-based position i on
ScanBranchLines(lines, i) ==
    IF i > Len(lines) THEN <<>>
    ELSE LET match == re_search(lines[i])
         IN  (IF match.isNone THEN <<>> ELSE <<IntOf(match.val)>>)
                 \o ScanBranchLines(lines, i + GroupSize)

\* a variant that inspects the lines at indices 1, 4, 7, ...
ExtractFromSecondLine(log) ==
    IF ~(log.exists /\ log.readable) THEN None
    ELSE LET counts == ScanBranchLines(log.lines, FirstBranchLine)
         IN  IF counts # <<>> THEN Some(counts) ELSE None

RECURSIVE ScanZeroFilled(_, _)
\* a variant of the loop that puts 0 for a group whose branches line does not match
ScanZeroFilled(lines, i) ==
    IF i > Len(lines) THEN <<>>
    ELSE LET match == re_search(lines[i])
         IN  <<IF match.isNone THEN 0 ELSE IntOf(match.val)>>
                 \o ScanZeroFilled(lines, i + GroupSize)

\* a variant that zero-fills the groups without a value
ExtractZeroFilled(log) ==
    IF ~(log.exists /\ log.readable) THEN None
    ELSE LET counts == ScanZeroFilled(log.lines, FirstBranchLine + 1)
         IN  IF counts # <<>> THEN Some(counts) ELSE None

\* a file is [exists, readable, lines]; open() of a missing or unreadable one raises
extract_branch_hit_counts(log) ==
    IF ~(log.exists /\ log.readable) THEN None
    ELSE LET counts == ScanBranchLines(log.lines, FirstBranchLine + 1)
         IN  IF counts # <<>> THEN Some(counts) ELSE None

-----------------------------------------------------------------------------
(* Coverage logs the runs draw from *)

LinesLine == <<"l", "i", "n", "e", "s", ".", ".", ".", ".", ".", ".", ":", " ", "4", "0", "%", " ", "(", "4", " ", "o", "f", " ", "1", "0", " ", "l", "i", "n", "e", "s", ")">>
FunctionsLine == <<"f", "u", "n", "c", "t", "i", "o", "n", "s", ".", ".", ":", " ", "5", "0", "%", " ", "(", "1", " ", "o", "f", " ", "2", " ", "f", "u", "n", "c", "t", "i", "o", "n", "s", ")">>
NoDataLine == <<"b", "r", "a", "n", "c", "h", "e", "s", ".", ".", ".", ":", " ", "n", "o", " ", "d", "a", "t", "a", " ", "f", "o", "u", "n", "d">>
BranchesLine(n, m) ==
    <<"b", "r", "a", "n", "c", "h", "e", "s", ".", ".", ".", ":", " ", "9", "%", " ", "(">> \o StrOf(n) \o <<" ", "o", "f", " ">> \o StrOf(m) \o <<" ", "b", "r", "a", "n", "c", "h", "e", "s", ")">>

Hits == {7, 12}
Totals == {50}
LineCatalogue ==
    {LinesLine, NoDataLine} \cup {BranchesLine(n, m) : n \in Hits, m \in Totals}

AbsentFile == [exists |-> FALSE, readable |-> FALSE, lines |-> <<>>]
UnreadableFile == [exists |-> TRUE, readable |-> FALSE, lines |-> <<>>]
TextFile(lines) == [exists |-> TRUE, readable |-> TRUE, lines |-> lines]

ParserInputs ==
    {AbsentFile, UnreadableFile}
        \cup {TextFile(l) : l \in SeqsUpTo(LineCatalogue, MaxLogLines)}

-----------------------------------------------------------------------------
(* Aggregator: collect_and_save_branch_data *)

\* a directory entry is [name, isdir, entries]; a campaign entry is [name, isdir, log],
\* log being the campaign's coverage.log

\* a variant that keeps a campaign whose log gave no value, with an empty sample
RECURSIVE CollectCampaignsKeepEmpty(_)
CollectCampaignsKeepEmpty(entries) ==
    IF entries = <<>> THEN <<>>
    ELSE LET campaign_path == Head(entries)
             counts == extract_branch_hit_counts(campaign_path.log)
         IN  (IF campaign_path.isdir /\ campaign_path.log.exists
              THEN <<[campaign_num |-> campaign_path.name, branch_counts |-> counts.val]>>
              ELSE <<>>)
                 \o CollectCampaignsKeepEmpty(Tail(entries))

RECURSIVE CollectCampaigns(_)
\* the loop over target_path.iterdir(): what campaign_data holds after it
CollectCampaigns(entries) ==
    IF entries = <<>> THEN <<>>
    ELSE LET campaign_path == Head(entries)
             counts == extract_branch_hit_counts(campaign_path.log)
         IN  (IF /\ campaign_path.isdir
                 /\ campaign_path.log.exists
                 /\ ~counts.isNone
              THEN <<[campaign_num |-> campaign_path.name, branch_counts |-> counts.val]>>
              ELSE <<>>)
                 \o CollectCampaigns(Tail(entries))

Ord(c) ==
    LET order == <<" ", ".", "0", "1", "2", "3", "4", "5", "6", "7", "8", "9", "_", "a", "b", "c", "d", "e", "f", "g", "h", "i", "j", "k", "l", "m", "n", "o", "p", "q", "r", "s", "t", "u", "v", "w", "x", "y", "z">>
    IN  CHOOSE i \in 1..Len(order) : order[i] = c

RECURSIVE StrLess(_, _)
\* a < b of two str: by code point, a proper prefix first
StrLess(a, b) ==
    IF b = <<>> THEN FALSE
    ELSE IF a = <<>> THEN TRUE
    ELSE IF Head(a) # Head(b) THEN Ord(Head(a)) < Ord(Head(b))
    ELSE StrLess(Tail(a), Tail(b))

\* the sort key, lambda x: int(x[0])
KeyLessEq(x, y) == IntOf(x.campaign_num) <= IntOf(y.campaign_num)

\* a variant key: the label as a str
KeyLessEqLex(x, y) == ~StrLess(y.campaign_num, x.campaign_num)

\* x placed in the sorted list front after its first k elements
InsertAt(front, x, k) == SubSeq(front, 1, k) \o <<x>> \o SubSeq(front, k + 1, Len(front))

\* a variant that sorts by the label as a str
RECURSIVE SortCampaignsLex(_)
SortCampaignsLex(campaign_data) ==
    IF campaign_data = <<>> THEN <<>>
    ELSE LET front == SortCampaignsLex(SubSeq(campaign_data, 1, Len(campaign_data) - 1))
             x == campaign_data[Len(campaign_data)]
         IN  InsertAt(front, x,
                 Cardinality({i \in 1..Len(front) : KeyLessEqLex(front[i], x)}))

RECURSIVE SortCampaigns(_)
\* campaign_data.sort(key=lambda x: int(x[0])): stable, each element placed after
\* those whose key is not greater
SortCampaigns(campaign_data) ==
    IF campaign_data = <<>> THEN <<>>
    ELSE LET front == SortCampaigns(SubSeq(campaign_data, 1, Len(campaign_data) - 1))
             x == campaign_data[Len(campaign_data)]
         IN  InsertAt(front, x,
                 Cardinality({i \in 1..Len(front) : KeyLessEq(front[i], x)}))

MinOf(S) == CHOOSE m \in S : \A n \in S : m <= n
MaxOf(S) == CHOOSE m \in S : \A n \in S : m >= n

RECURSIVE SumSeq(_)
SumSeq(s) == IF s = <<>> THEN 0 ELSE Head(s) + SumSeq(Tail(s))

\* a variant that averages up to the longest sample, a missing value counting as 0
AveragesPadded(campaign_data) ==
    LET columns == MaxOf({Len(c.branch_counts) : c \in Range(campaign_data)})
        at(c, i) == IF i <= Len(c.branch_counts) THEN c.branch_counts[i] ELSE 0
    IN  Some([col_idx \in 1..columns |->
                [num |-> SumSeq([k \in 1..Len(campaign_data) |-> at(campaign_data[k], col_idx)]),
                 den |-> Len(campaign_data)]])

\* the averages list of a non-empty campaign_data; None when no average line is written
Averages(campaign_data) ==
    LET min_columns == MinOf({Len(c.branch_counts) : c \in Range(campaign_data)})
    IN  IF min_columns > 0
        THEN Some([col_idx \in 1..min_columns |->
                    [num |-> SumSeq([k \in 1..Len(campaign_data) |->
                                        campaign_data[k].branch_counts[col_idx]]),
                     den |-> Len(campaign_data)]])
        ELSE None

\* the nearest integer to num / den, a tie going to the even one (a tie is a
\* dyadic fraction, which the float holds exactly)
RoundHalfEven(num, den) ==
    LET q == num \div den
        r == num % den
    IN  IF 2 * r > den \/ (2 * r = den /\ q % 2 = 1) THEN q + 1 ELSE q

\* f"{avg:.2f}"
Format2f(avg) ==
    LET h == RoundHalfEven(100 * avg.num, avg.den)
    IN  StrOf(h \div 100) \o <<".">>
            \o <<Digits[((h \div 10) % 10) + 1], Digits[(h % 10) + 1]>>

RECURSIVE JoinCounts(_)
JoinCounts(counts) ==
    IF counts = <<>> THEN <<>>
    ELSE <<" ">> \o StrOf(Head(counts)) \o JoinCounts(Tail(counts))

RECURSIVE JoinAverages(_)
JoinAverages(averages) ==
    IF averages = <<>> THEN <<>>
    ELSE <<" ">> \o Format2f(Head(averages)) \o JoinAverages(Tail(averages))

\* the lines written to the table file of a sorted, non-empty campaign_data
TableLines(campaign_data) ==
    LET averages == Averages(campaign_data)
    IN  [i \in 1..Len(campaign_data) |->
            campaign_data[i].campaign_num \o JoinCounts(campaign_data[i].branch_counts)]
        \o (IF averages.isNone THEN <<>>
            ELSE <<<<"a", "v", "g">> \o JoinAverages(averages.val)>>)

\* f"{target_name}_{fuzzer_name}_branch_count.txt"
OutputFilename(target_name, fuzzer_name) ==
    target_name \o <<"_">> \o fuzzer_name \o <<"_", "b", "r", "a", "n", "c", "h", "_", "c", "o", "u", "n", "t", ".", "t", "x", "t">>

\* a dict after d[key] = value
Put(d, key, value) ==
    [k \in DOMAIN d \cup {key} |-> IF k = key THEN value ELSE d[k]]

EmptyDict == [k \in {} |-> 0]

Collecting == pc = "collect" /\ fi <= Len(tree)

InFuzzer == Collecting /\ tree[fi].isdir /\ ti <= Len(tree[fi].entries)

\* if not fuzzer_path.is_dir(): continue
SkipFuzzerEntry ==
    /\ Collecting
    /\ ~tree[fi].isdir
    /\ fi' = fi + 1
    /\ ti' = 1
    /\ UNCHANGED <<entry, dirs, pc, coverage_log, branch_counts, tree, data_files, data_summary,
                   files_created, writes, gi, graphs, target_fuzzers, comparisons>>

\* if not target_path.is_dir(): continue
SkipTargetEntry ==
    /\ InFuzzer
    /\ ~tree[fi].entries[ti].isdir
    /\ ti' = ti + 1
    /\ UNCHANGED <<entry, dirs, pc, coverage_log, branch_counts, tree, fi, data_files, data_summary,
                   files_created, writes, gi, graphs, target_fuzzers, comparisons>>

\* one target directory: its campaigns collected, sorted and written as a table
CollectTarget ==
    /\ InFuzzer
    /\ tree[fi].entries[ti].isdir
    /\ LET fuzzer_name == tree[fi].name
           target_name == tree[fi].entries[ti].name
           campaign_data == CollectCampaigns(tree[fi].entries[ti].entries)
       IN  IF campaign_data = <<>>
           THEN /\ ti' = ti + 1
                /\ UNCHANGED <<pc, data_files, data_summary, files_created, writes>>
           ELSE IF \E c \in Range(campaign_data) : ~IsInt(c.campaign_num)
           THEN \* int(x[0]) raises ValueError, which nothing catches
                /\ pc' = "crashed"
                /\ UNCHANGED <<ti, data_files, data_summary, files_created, writes>>
           ELSE LET sorted == SortCampaigns(campaign_data)
                    output_filename == OutputFilename(target_name, fuzzer_name)
                    lines == TableLines(sorted)
                IN  /\ data_files' = Put(data_files, output_filename, TextFile(lines))
                    /\ data_summary' =
                           Put(data_summary, <<target_name, fuzzer_name>>, Len(sorted))
                    /\ files_created' = files_created + 1
                    /\ writes' = Append(writes,
                           [target |-> target_name, fuzzer |-> fuzzer_name,
                            name |-> output_filename, campaign_data |-> sorted,
                            averages |-> Averages(sorted), lines |-> lines])
                    /\ ti' = ti + 1
                    /\ pc' = pc
    /\ UNCHANGED <<entry, dirs, coverage_log, branch_counts, tree, fi, gi, graphs, target_fuzzers,
                   comparisons>>

\* the loop over fuzzer_path.iterdir() is exhausted
NextFuzzer ==
    /\ Collecting
    /\ tree[fi].isdir
    /\ ti > Len(tree[fi].entries)
    /\ fi' = fi + 1
    /\ ti' = 1
    /\ UNCHANGED <<entry, dirs, pc, coverage_log, branch_counts, tree, data_files, data_summary,
                   files_created, writes, gi, graphs, target_fuzzers, comparisons>>

\* return dict(data_summary), files_created; main goes on to plot_branch_graphs
CollectReturn ==
    /\ pc = "collect"
    /\ fi > Len(tree)
    /\ pc' = "plot"
    /\ gi' = 1
    /\ UNCHANGED <<entry, dirs, coverage_log, branch_counts, tree, fi, ti, data_files, data_summary,
                   files_created, writes, graphs, target_fuzzers, comparisons>>

-----------------------------------------------------------------------------
(* Table Store, read side: the renderers' parsers *)

RECURSIVE NonSpaceRun(_, _)
NonSpaceRun(s, i) ==
    IF i <= Len(s) /\ s[i] # " " THEN 1 + NonSpaceRun(s, i + 1) ELSE 0

RECURSIVE Split(_)
\* line.strip().split(): the maximal runs of non-blank characters
Split(s) ==
    IF s = <<>> THEN <<>>
    ELSE IF Head(s) = " " THEN Split(Tail(s))
    ELSE LET n == NonSpaceRun(s, 1)
         IN  <<SubSeq(s, 1, n)>> \o Split(DropFirst(s, n))

DotsOf(tok) == {i \in 1..Len(tok) : tok[i] = "."}

AllDigits(s) == \A i \in 1..Len(s) : IsDigit(s[i])

\* float(tok) succeeds; the model's numbers are unsigned decimals of at most two places
IsFloat(tok) ==
    \/ IsInt(tok)
    \/ /\ Cardinality(DotsOf(tok)) = 1
       /\ LET p == CHOOSE i \in DotsOf(tok) : TRUE
              whole == SubSeq(tok, 1, p - 1)
              frac == DropFirst(tok, p)
          IN  /\ AllDigits(whole)
              /\ AllDigits(frac)
              /\ Len(whole) + Len(frac) >= 1
              /\ Len(frac) <= 2

\* a variant that keeps the whole part only
FloatOfWhole(tok) ==
    100 * IntOf(SubSeq(tok, 1, MinOf(DotsOf(tok) \cup {Len(tok) + 1}) - 1))

\* float(tok), in hundredths
FloatOf(tok) ==
    IF DotsOf(tok) = {} THEN 100 * IntOf(tok)
    ELSE LET p == CHOOSE i \in DotsOf(tok) : TRUE
             frac == DropFirst(tok, p)
         IN  100 * IntOf(SubSeq(tok, 1, p - 1))
                 + (IF Len(frac) = 0 THEN 0
                    ELSE IF Len(frac) = 1 THEN 10 * IntOf(frac)
                    ELSE IntOf(frac))

\* [float(x) for x in parts[1:]]
FloatsOf(parts) == [i \in 1..(Len(parts) - 1) |-> FloatOf(parts[i + 1])]

FloatsRaise(parts) == \E i \in 2..Len(parts) : ~IsFloat(parts[i])

\* campaign_data[label] = values on an insertion-ordered dict kept as a list of entries
DictSet(entries, label, values) ==
    IF \E i \in 1..Len(entries) : entries[i].label = label
    THEN [i \in 1..Len(entries) |->
            IF entries[i].label = label THEN [label |-> label, values |-> values]
            ELSE entries[i]]
    ELSE Append(entries, [label |-> label, values |-> values])

RECURSIVE ParseLines(_, _, _)
\* the parse loop of plot_branch_graphs over the file's lines
ParseLines(lines, campaign_data, avg_data) ==
    IF lines = <<>>
    THEN [raised |-> FALSE, campaign_data |-> campaign_data, avg_data |-> avg_data]
    ELSE LET parts == Split(Head(lines))
         IN  IF parts = <<>> THEN ParseLines(Tail(lines), campaign_data, avg_data)
             ELSE IF FloatsRaise(parts)
             THEN [raised |-> TRUE, campaign_data |-> campaign_data, avg_data |-> avg_data]
             ELSE IF parts[1] = <<"a", "v", "g">>
             THEN ParseLines(Tail(lines), campaign_data, Some(FloatsOf(parts)))
             ELSE ParseLines(Tail(lines),
                             DictSet(campaign_data, parts[1], FloatsOf(parts)), avg_data)

ParseTable(lines) == ParseLines(lines, <<>>, None)

RECURSIVE ParseAvg(_)
\* the parse loop of plot_comparison_graphs: the first avg line only
ParseAvg(lines) ==
    IF lines = <<>> THEN [raised |-> FALSE, avg_data |-> None]
    ELSE LET line_parts == Split(Head(lines))
         IN  IF line_parts # <<>> /\ line_parts[1] = <<"a", "v", "g">>
             THEN IF FloatsRaise(line_parts) THEN [raised |-> TRUE, avg_data |-> None]
                  ELSE [raised |-> FALSE, avg_data |-> Some(FloatsOf(line_parts))]
             ELSE ParseAvg(Tail(lines))

-----------------------------------------------------------------------------
(* File names *)

\* Path.stem: the name up to its last dot, a leading or trailing dot not counting
Stem(name) ==
    LET dots == {i \in 2..(Len(name) - 1) : name[i] = "."}
    IN  IF dots = {} THEN name ELSE SubSeq(name, 1, MaxOf(dots) - 1)

RECURSIVE Replace(_, _)
\* s.replace(old, ''): every occurrence of old, left to right
Replace(s, old) ==
    IF s = <<>> THEN <<>>
    ELSE IF StartsWithAt(s, 1, old) THEN Replace(DropFirst(s, Len(old)), old)
    ELSE <<Head(s)>> \o Replace(Tail(s), old)

\* s.rsplit('_', 1)
RSplit(s) ==
    LET at == {i \in 1..Len(s) : s[i] = "_"}
    IN  IF at = {} THEN <<s>>
        ELSE <<SubSeq(s, 1, MaxOf(at) - 1), DropFirst(s, MaxOf(at))>>

\* filename = data_file.stem.replace('_branch_count', '')
TableKey(name) == Replace(Stem(name), <<"_", "b", "r", "a", "n", "c", "h", "_", "c", "o", "u", "n", "t">>)

\* parts = filename.rsplit('_', 1)
DecodeFilename(name) == RSplit(TableKey(name))

\* data_dir.glob('*_branch_count.txt')
Matches(name) == EndsWith(name, <<"_", "b", "r", "a", "n", "c", "h", "_", "c", "o", "u", "n", "t", ".", "t", "x", "t">>)

RECURSIVE SortStrings(_)
\* sorted(S) of a set of str
SortStrings(S) ==
    IF S = {} THEN <<>>
    ELSE LET least == CHOOSE a \in S : \A b \in S : a = b \/ StrLess(a, b)
         IN  <<least>> \o SortStrings(S \ {least})

\* data_files = sorted(data_dir.glob('*_branch_count.txt'))
DataList == SortStrings({name \in DOMAIN data_files : Matches(name)})

-----------------------------------------------------------------------------
(* Chart Renderer *)

Interval == 30
MarginFloor == 50
FlatMargin == 10

Larger(a, b) == IF a >= b THEN a ELSE b

\* a variant without the floor of 50
MarginNoFloor(min_val, max_val) ==
    LET margin == 25 * (max_val - min_val)
    IN  IF margin = 0 THEN Larger(FlatMargin * 10000, min_val) ELSE margin

\* margin = max((max_val - min_val) * 0.25, 50); if margin == 0: margin = max(10,
\* min_val * 0.01).  min_val and max_val in hundredths, the margin in ten-thousandths
Margin(min_val, max_val) ==
    LET margin == Larger(25 * (max_val - min_val), MarginFloor * 10000)
    IN  IF margin = 0 THEN Larger(FlatMargin * 10000, min_val) ELSE margin

\* what ax.set_ylim gets for all_values, in ten-thousandths; None when all_values is
\* empty and set_ylim is not called
YLimits(all_values) ==
    IF all_values = <<>> THEN None
    ELSE LET min_val == MinOf(Range(all_values))
             max_val == MaxOf(Range(all_values))
             margin == Margin(min_val, max_val)
         IN  Some(<<100 * min_val - margin, 100 * max_val + margin>>)

\* time_points = [i * 30 for i in range(num_points)]
TimePoints(num_points) == [i \in 1..num_points |-> (i - 1) * Interval]

\* if avg_data: (neither None nor empty)
Truthy(avg_data) == ~avg_data.isNone /\ avg_data.val # <<>>

RECURSIVE ExtendAll(_, _)
\* all_values after the loop all_values.extend(values[:num_points])
ExtendAll(campaign_data, num_points) ==
    IF campaign_data = <<>> THEN <<>>
    ELSE TakeFirst(Head(campaign_data).values, num_points)
             \o ExtendAll(Tail(campaign_data), num_points)

LabelLessEq(x, y) == IntOf(x.label) <= IntOf(y.label)

RECURSIVE SortLabels(_)
\* sorted(campaign_data.keys(), key=lambda x: int(x)), the entries in that order
SortLabels(campaign_data) ==
    IF campaign_data = <<>> THEN <<>>
    ELSE LET front == SortLabels(SubSeq(campaign_data, 1, Len(campaign_data) - 1))
             x == campaign_data[Len(campaign_data)]
         IN  InsertAt(front, x,
                 Cardinality({i \in 1..Len(front) : LabelLessEq(front[i], x)}))

\* the figure plot_branch_graphs draws from a parsed table with campaigns, or the
\* exception that ends the run
BranchGraph(data_file, target_name, fuzzer_name, campaign_data, avg_data) ==
    LET num_points == IF Truthy(avg_data) THEN Len(avg_data.val)
                      ELSE Len(campaign_data[1].values)
        time_points == TimePoints(num_points)
        all_values == ExtendAll(campaign_data, num_points)
                          \o (IF Truthy(avg_data) THEN avg_data.val ELSE <<>>)
    IN  IF \E i \in 1..Len(campaign_data) : ~IsInt(campaign_data[i].label)
        THEN [raised |-> TRUE]              \* int(x): ValueError
        ELSE IF num_points = 0
        THEN [raised |-> TRUE]              \* time_points[-1]: IndexError
        ELSE [raised |-> FALSE,
              data_file |-> data_file,
              name |-> target_name \o <<"_">> \o fuzzer_name \o <<"_", "b", "r", "a", "n", "c", "h", "_", "g", "r", "a", "p", "h", ".", "p", "n", "g">>,
              target |-> target_name,
              fuzzer |-> fuzzer_name,
              campaign_data |-> campaign_data,
              avg_data |-> avg_data,
              num_points |-> num_points,
              plotted |-> SelectSeq(SortLabels(campaign_data),
                                    LAMBDA c : Len(c.values) >= num_points),
              all_values |-> all_values,
              ylim |-> YLimits(all_values),
              xlim |-> <<0, time_points[num_points]>>]

Plotting == pc = "plot" /\ gi <= Len(DataList)

\* one data file of plot_branch_graphs' loop
PlotBranchGraph ==
    /\ Plotting
    /\ LET data_file == DataList[gi]
           parts == DecodeFilename(data_file)
           file == data_files[data_file]
           parsed == ParseTable(file.lines)
           figure == BranchGraph(data_file, parts[1], parts[2],
                                 parsed.campaign_data, parsed.avg_data)
       IN  IF \/ Len(parts) # 2
              \/ ~file.readable
              \/ file.lines = <<>>
           THEN gi' = gi + 1 /\ UNCHANGED <<pc, graphs>>
           ELSE IF parsed.raised                    \* float(x): ValueError
           THEN pc' = "crashed" /\ UNCHANGED <<gi, graphs>>
           ELSE IF parsed.campaign_data = <<>>
           THEN gi' = gi + 1 /\ UNCHANGED <<pc, graphs>>
           ELSE IF figure.raised
           THEN pc' = "crashed" /\ UNCHANGED <<gi, graphs>>
           ELSE /\ graphs' = Append(graphs, figure)
                /\ gi' = gi + 1
                /\ pc' = pc
    /\ UNCHANGED <<entry, dirs, coverage_log, branch_counts, tree, fi, ti, data_files, data_summary,
                   files_created, writes, target_fuzzers, comparisons>>

\* plot_branch_graphs returns; main goes on to plot_comparison_graphs
PlotBranchReturn ==
    /\ pc = "plot"
    /\ gi > Len(DataList)
    /\ pc' = "gather"
    /\ gi' = 1
    /\ UNCHANGED <<entry, dirs, coverage_log, branch_counts, tree, fi, ti, data_files, data_summary,
                   files_created, writes, graphs, target_fuzzers, comparisons>>

\* one data file of plot_comparison_graphs' first loop
GatherAvg ==
    /\ pc = "gather"
    /\ gi <= Len(DataList)
    /\ LET data_file == DataList[gi]
           parts == DecodeFilename(data_file)
           file == data_files[data_file]
           parsed == ParseAvg(file.lines)
           target_name == parts[1]
           fuzzer_name == parts[2]
           fuzzers_data == IF target_name \in DOMAIN target_fuzzers
                           THEN target_fuzzers[target_name] ELSE EmptyDict
       IN  IF \/ Len(parts) # 2
              \/ ~file.readable
              \/ file.lines = <<>>
           THEN gi' = gi + 1 /\ UNCHANGED <<pc, target_fuzzers>>
           ELSE IF parsed.raised                    \* float(x): ValueError
           THEN pc' = "crashed" /\ UNCHANGED <<gi, target_fuzzers>>
           ELSE IF parsed.avg_data.isNone
           THEN gi' = gi + 1 /\ UNCHANGED <<pc, target_fuzzers>>
           ELSE /\ target_fuzzers' =
                       Put(target_fuzzers, target_name,
                           Put(fuzzers_data, fuzzer_name,
                               [avg_data |-> parsed.avg_data.val,
                                time_points |-> TimePoints(Len(parsed.avg_data.val)),
                                data_file |-> data_file]))
                /\ gi' = gi + 1
                /\ pc' = pc
    /\ UNCHANGED <<entry, dirs, coverage_log, branch_counts, tree, fi, ti, data_files, data_summary,
                   files_created, writes, graphs, comparisons>>

\* the first loop is exhausted
GatherReturn ==
    /\ pc = "gather"
    /\ gi > Len(DataList)
    /\ pc' = "compare"
    /\ gi' = 1
    /\ UNCHANGED <<entry, dirs, coverage_log, branch_counts, tree, fi, ti, data_files, data_summary,
                   files_created, writes, graphs, target_fuzzers, comparisons>>

TargetList == SortStrings(DOMAIN target_fuzzers)

RECURSIVE ExtendAvg(_, _)
\* all_values after the loop over sorted(fuzzers_data.keys())
ExtendAvg(fuzzers_data, names) ==
    IF names = <<>> THEN <<>>
    ELSE fuzzers_data[Head(names)].avg_data \o ExtendAvg(fuzzers_data, Tail(names))

\* one target of plot_comparison_graphs' second loop
PlotComparison ==
    /\ pc = "compare"
    /\ gi <= Len(TargetList)
    /\ LET target_name == TargetList[gi]
           fuzzers_data == target_fuzzers[target_name]
           names == SortStrings(DOMAIN fuzzers_data)
           all_values == ExtendAvg(fuzzers_data, names)
           \* the loop variable of the plotting loop, as it is left after the loop
           time_points == fuzzers_data[names[Len(names)]].time_points
       IN  IF Cardinality(DOMAIN fuzzers_data) <= 1
           THEN gi' = gi + 1 /\ UNCHANGED <<pc, comparisons>>
           ELSE IF time_points = <<>>               \* time_points[-1]: IndexError
           THEN pc' = "crashed" /\ UNCHANGED <<gi, comparisons>>
           ELSE /\ comparisons' = Append(comparisons,
                       [name |-> target_name \o <<"_", "c", "o", "m", "p", "a", "r", "i", "s", "o", "n", ".", "p", "n", "g">>,
                        target |-> target_name,
                        fuzzers |-> names,
                        series |-> [i \in 1..Len(names) |-> fuzzers_data[names[i]].avg_data],
                        all_values |-> all_values,
                        ylim |-> YLimits(all_values),
                        xlim |-> <<0, time_points[Len(time_points)]>>])
                /\ gi' = gi + 1
                /\ pc' = pc
    /\ UNCHANGED <<entry, dirs, coverage_log, branch_counts, tree, fi, ti, data_files, data_summary,
                   files_created, writes, graphs, target_fuzzers>>

\* plot_comparison_graphs returns and main ends
CompareReturn ==
    /\ pc = "compare"
    /\ gi > Len(TargetList)
    /\ pc' = "done"
    /\ UNCHANGED <<entry, dirs, coverage_log, branch_counts, tree, fi, ti, data_files, data_summary,
                   files_created, writes, gi, graphs, target_fuzzers, comparisons>>

\* extract_branch_hit_counts called on one log
Extract ==
    /\ pc = "parse"
    /\ branch_counts' = extract_branch_hit_counts(coverage_log)
    /\ pc' = "parsed"
    /\ UNCHANGED <<entry, dirs, coverage_log, tree, fi, ti, data_files, data_summary, files_created,
                   writes, gi, graphs, target_fuzzers, comparisons>>

-----------------------------------------------------------------------------
(* The inputs the runs draw from *)

RECURSIVE LogLines(_)
\* a coverage.log of one 3-line group for each branch hit count
LogLines(counts) ==
    IF counts = <<>> THEN <<>>
    ELSE <<LinesLine, FunctionsLine, BranchesLine(Head(counts), 50)>>
             \o LogLines(Tail(counts))

DistinctNames(s) == \A i, j \in 1..Len(s) : i # j => s[i].name # s[j].name

\* sequences of at most n entries of S, no two of the same name: a directory listing
Listings(S, n) == {s \in SeqsUpTo(S, n) : DistinctNames(s)}

Dir(name, entries) == [name |-> name, isdir |-> TRUE, entries |-> entries]
PlainFile(name) == [name |-> name, isdir |-> FALSE, entries |-> <<>>]
CampaignDir(name, log) == [name |-> name, isdir |-> TRUE, log |-> log]
CampaignFile(name) == [name |-> name, isdir |-> FALSE, log |-> AbsentFile]

CampaignLabels == {<<"2">>, <<"1", "0">>, <<"0", "2">>, <<"x">>}
CampaignLogs ==
    {AbsentFile, UnreadableFile, TextFile(<<LinesLine, FunctionsLine, NoDataLine>>),
     TextFile(LogLines(<<10, 20>>)), TextFile(LogLines(<<13, 22, 32>>))}
CampaignEntries ==
    {CampaignDir(l, g) : l \in CampaignLabels, g \in CampaignLogs}
        \cup {CampaignFile(<<"f">>)}

\* one fuzzer, one target, any campaigns
DeepTrees ==
    {<<Dir(<<"c">>, <<Dir(<<"a">>, cs)>>)>> : cs \in Listings(CampaignEntries, MaxCampaigns)}

FewCampaigns ==
    {<<CampaignDir(<<"2">>, TextFile(LogLines(<<10, 20>>)))>>,
     <<CampaignDir(<<"2">>, AbsentFile)>>}
TargetEntries ==
    {Dir(t, cs) : t \in {<<"a">>, <<"a", "_", "b">>}, cs \in FewCampaigns} \cup {PlainFile(<<"f">>)}
FuzzerEntries ==
    {Dir(f, ts) : f \in {<<"c">>, <<"b", "_", "c">>}, ts \in Listings(TargetEntries, MaxTargets)}
        \cup {PlainFile(<<"f">>)}

\* several fuzzers and targets, few campaigns
WideTrees == Listings(FuzzerEntries, MaxFuzzers)

\* the coverage directories, the empty one among them
Trees == DeepTrees \cup WideTrees

TableNames ==
    {<<"t", "_", "a", "_", "b", "r", "a", "n", "c", "h", "_", "c", "o", "u", "n", "t", ".", "t", "x", "t">>, <<"t", "_", "h", "_", "b", "r", "a", "n", "c", "h", "_", "c", "o", "u", "n", "t", ".", "t", "x", "t">>, <<"m", "y", "_", "t", "_", "a", "_", "b", "r", "a", "n", "c", "h", "_", "c", "o", "u", "n", "t", ".", "t", "x", "t">>,
     <<"t", "_", "b", "r", "a", "n", "c", "h", "_", "c", "o", "u", "n", "t", "_", "a", "_", "b", "r", "a", "n", "c", "h", "_", "c", "o", "u", "n", "t", ".", "t", "x", "t">>, <<"x", "_", "b", "r", "a", "n", "c", "h", "_", "c", "o", "u", "n", "t", ".", "t", "x", "t">>, <<"n", "o", "t", "e", "s", ".", "t", "x", "t">>}
TableContents ==
    {TextFile(<<<<"2", " ", "1", "0", " ", "2", "0">>, <<"1", "0", " ", "1", "3", " ", "2", "2", " ", "3", "2">>, <<"a", "v", "g", " ", "1", "1", ".", "5", "0", " ", "2", "1", ".", "0", "0">>>>),
     TextFile(<<<<"1", " ", "4", "0", " ", "4", "0">>, <<"a", "v", "g", " ", "4", "0", ".", "0", "0", " ", "4", "0", ".", "0", "0">>>>),
     TextFile(<<<<"1", " ", "1", "0", "0", " ", "2", "0", "0">>, <<"a", "v", "g", " ", "1", "0", "0", ".", "0", "0", " ", "2", "0", "0", ".", "0", "0">>>>),
     TextFile(<<<<"1", " ", "1", "0", "0", " ", "5", "0", "0">>, <<>>, <<"3", " ", "2", "0", "0">>>>),
     TextFile(<<<<"a", "v", "g", " ", "4", "0", ".", "0", "0">>>>),
     TextFile(<<<<"a", "v", "g">>>>),
     TextFile(<<<<"1", " ", "x">>>>),
     UnreadableFile}

\* a data directory of at most MaxFiles files
DataDirs ==
    UNION {[S -> TableContents] :
              S \in {T \in SUBSET TableNames : Cardinality(T) <= MaxFiles}}

-----------------------------------------------------------------------------
(* The programs *)

Idle ==
    /\ coverage_log = AbsentFile
    /\ branch_counts = None
    /\ fi = 1
    /\ ti = 1
    /\ data_summary = EmptyDict
    /\ files_created = 0
    /\ writes = <<>>
    /\ gi = 1
    /\ graphs = <<>>
    /\ target_fuzzers = EmptyDict
    /\ comparisons = <<>>

\* check_coverage_directory: the coverage directory exists and has an entry
check_coverage_directory == <<"c", "o", "v", "e", "r", "a", "g", "e">> \in dirs /\ tree # <<>>

\* main of plot_coverage.py up to the call of collect_and_save_branch_data:
\* sys.exit(1) unless check_coverage_directory, else setup_output_directories
Main ==
    /\ pc = "main"
    /\ IF ~check_coverage_directory
       THEN pc' = "exit1" /\ dirs' = dirs
       ELSE pc' = "collect" /\ dirs' = dirs \cup {<<"g", "r", "a", "p", "h">>, <<"g", "r", "a", "p", "h", "/", "d", "a", "t", "a">>}
    /\ UNCHANGED <<entry, coverage_log, branch_counts, tree, fi, ti, data_files,
                   data_summary, files_created, writes, gi, graphs, target_fuzzers,
                   comparisons>>

\* main of plot_graphs_only.py up to the call of plot_branch_graphs: sys.exit(1)
\* unless the data directory exists, else graph_dir.mkdir(exist_ok=True)
MainGraphsOnly ==
    /\ pc = "main"
    /\ IF <<"g", "r", "a", "p", "h", "/", "d", "a", "t", "a">> \notin dirs
       THEN pc' = "exit1" /\ dirs' = dirs
       ELSE pc' = "plot" /\ dirs' = dirs \cup {<<"g", "r", "a", "p", "h">>}
    /\ UNCHANGED <<entry, coverage_log, branch_counts, tree, fi, ti, data_files,
                   data_summary, files_created, writes, gi, graphs, target_fuzzers,
                   comparisons>>

\* plot_coverage.py started on a work directory without graph directory, the coverage
\* directory absent or present
Init ==
    /\ entry = "plot_coverage"
    /\ pc = "main"
    /\ \/ dirs = {} /\ tree = <<>>
       \/ dirs = {<<"c", "o", "v", "e", "r", "a", "g", "e">>} /\ tree \in Trees
    /\ data_files = EmptyDict
    /\ Idle

Next ==
    \/ Main
    \/ SkipFuzzerEntry
    \/ SkipTargetEntry
    \/ CollectTarget
    \/ NextFuzzer
    \/ CollectReturn
    \/ PlotBranchGraph
    \/ PlotBranchReturn
    \/ GatherAvg
    \/ GatherReturn
    \/ PlotComparison
    \/ CompareReturn

Spec == Init /\ [][Next]_vars

\* plot_graphs_only.py started on a data directory, absent or present
InitGraphsOnly ==
    /\ entry = "plot_graphs_only"
    /\ pc = "main"
    /\ tree = <<>>
    /\ \/ dirs \in {{}, {<<"g", "r", "a", "p", "h">>}} /\ data_files = EmptyDict
       \/ dirs = {<<"g", "r", "a", "p", "h">>, <<"g", "r", "a", "p", "h", "/", "d", "a", "t", "a">>} /\ data_files \in DataDirs
    /\ Idle

NextGraphsOnly ==
    \/ MainGraphsOnly
    \/ PlotBranchGraph
    \/ PlotBranchReturn
    \/ GatherAvg
    \/ GatherReturn
    \/ PlotComparison
    \/ CompareReturn

SpecGraphsOnly == InitGraphsOnly /\ [][NextGraphsOnly]_vars

\* extract_branch_hit_counts on one file
InitParser ==
    /\ entry = "extract_branch_hit_counts"
    /\ dirs = {}
    /\ pc = "parse"
    /\ tree = <<>>
    /\ data_files = EmptyDict
    /\ coverage_log \in ParserInputs
    /\ branch_counts = None
    /\ fi = 1
    /\ ti = 1
    /\ data_summary = EmptyDict
    /\ files_created = 0
    /\ writes = <<>>
    /\ gi = 1
    /\ graphs = <<>>
    /\ target_fuzzers = EmptyDict
    /\ comparisons = <<>>

NextParser == Extract

SpecParser == InitParser /\ [][NextParser]_vars

-----------------------------------------------------------------------------
(* What the properties speak of *)

Abs(x) == IF x < 0 THEN -x ELSE x

Written == {writes[n] : n \in 1..Len(writes)}

\* the aggregator has returned
Collected == pc \in {"plot", "gather", "compare", "done"}

\* a campaign entry that has a non-empty sample
Qualifies(e) == e.isdir /\ ~extract_branch_hit_counts(e.log).isNone

FuzzerDirs == {f \in Range(tree) : f.isdir}
TargetDirs(f) == {t \in Range(f.entries) : t.isdir}

\* the (target, fuzzer) pairs of the tree with at least one qualifying campaign
QualifyingPairs ==
    UNION {{<<t.name, f.name>> :
               t \in {u \in TargetDirs(f) : \E e \in Range(u.entries) : Qualifies(e)}} :
              f \in FuzzerDirs}

\* the names of the qualifying campaigns of a pair of the tree
QualifyingLabels(p) ==
    UNION {{e.name : e \in {x \in Range(t.entries) : Qualifies(x)}} :
              t \in UNION {{u \in TargetDirs(f) : u.name = p[1]} :
                              f \in {g \in FuzzerDirs : g.name = p[2]}}}

ShortestSample(campaign_data) ==
    MinOf({Len(campaign_data[k].branch_counts) : k \in 1..Len(campaign_data)})

ColumnTotal(campaign_data, i) ==
    SumSeq([k \in 1..Len(campaign_data) |-> campaign_data[k].branch_counts[i]])

FirstToken(line) == Split(line)[1]

CampaignLinesOf(lines) == SelectSeq(lines, LAMBDA l : FirstToken(l) # <<"a", "v", "g">>)

-----------------------------------------------------------------------------
(* Properties *)

\* C1: in every table the aggregator writes, the average row has as many columns as
\* the table's shortest sample, column i being the arithmetic mean of column i of all
\* the table's campaigns; the columns beyond are dropped, in memory and in the file.
C1_AverageRow ==
    \A w \in Written :
        LET m == ShortestSample(w.campaign_data)
            n == Len(w.campaign_data)
        IN  /\ ~w.averages.isNone
            /\ Len(w.averages.val) = m
            /\ \A i \in 1..m :
                   w.averages.val[i].num * n
                       = w.averages.val[i].den * ColumnTotal(w.campaign_data, i)
            /\ Len(Split(w.lines[Len(w.lines)])) = m + 1

C1_Witness ==
    \E w \in Written :
        /\ \E c, d \in Range(w.campaign_data) : Len(c.branch_counts) < Len(d.branch_counts)
        /\ Len(w.averages.val) = 2

FlatRange(all_values) ==
    LET v == all_values[1]
        margin == IF 10 * 10000 >= v THEN 10 * 10000 ELSE v
    IN  Some(<<100 * v - margin, 100 * v + margin>>)

\* C2: when all the values of a chart are equal, its Y range is
\* [min - margin, max + margin] with margin = max(10, 0.01 * min), for the progress
\* chart and for the comparison chart.
C2_FlatRange ==
    /\ \A g \in Range(graphs) :
           g.all_values # <<>> /\ Cardinality(Range(g.all_values)) = 1
               => g.ylim = FlatRange(g.all_values)
    /\ \A c \in Range(comparisons) :
           c.all_values # <<>> /\ Cardinality(Range(c.all_values)) = 1
               => c.ylim = FlatRange(c.all_values)

\* the values the Y range of a progress chart is taken over
PlottedValues(g) ==
    UNION {{g.campaign_data[k].values[i] :
               i \in 1..MinOf({g.num_points, Len(g.campaign_data[k].values)})} :
              k \in 1..Len(g.campaign_data)}
        \cup (IF g.avg_data.isNone THEN {} ELSE Range(g.avg_data.val))

\* the values the Y range of a comparison chart is taken over
ComparedValues(c) == UNION {Range(c.series[i]) : i \in 1..Len(c.series)}

SpreadRange(values) ==
    LET lo == MinOf(values)
        hi == MaxOf(values)
        quarter == 25 * (hi - lo)
        margin == IF quarter >= 50 * 10000 THEN quarter ELSE 50 * 10000
    IN  <<100 * lo - margin, 100 * hi + margin>>

ReadsBack(w, campaign_data, avg_data) ==
    LET n == Len(w.campaign_data)
    IN  /\ Len(campaign_data) = n
        /\ \A k \in 1..n :
               /\ campaign_data[k].label = w.campaign_data[k].campaign_num
               /\ Len(campaign_data[k].values) = Len(w.campaign_data[k].branch_counts)
               /\ \A i \in 1..Len(campaign_data[k].values) :
                      campaign_data[k].values[i] = 100 * w.campaign_data[k].branch_counts[i]
        /\ \A k, l \in 1..n :
               k < l => IntOf(campaign_data[k].label) <= IntOf(campaign_data[l].label)
        /\ ~avg_data.isNone
        /\ Len(avg_data.val) = ShortestSample(w.campaign_data)
        /\ \A i \in 1..Len(avg_data.val) :
               2 * Abs(n * avg_data.val[i] - 100 * ColumnTotal(w.campaign_data, i)) <= n

\* C4: every table the aggregator serializes is read back by the renderer's parser
\* with the same labels in the same ascending order, the sample values equal to the
\* integers written, and the average row equal to the average rounded to 2 decimals.
C4_RoundTrip ==
    /\ \A w \in Written :
           LET parsed == ParseTable(w.lines)
           IN  ~parsed.raised /\ ReadsBack(w, parsed.campaign_data, parsed.avg_data)
    /\ \A g \in Range(graphs) :
           \A n \in 1..Len(writes) :
               /\ writes[n].name = g.data_file
               /\ \A later \in (n + 1)..Len(writes) : writes[later].name # g.data_file
               => ReadsBack(writes[n], g.campaign_data, g.avg_data)

C4_Witness ==
    /\ pc = "done"
    /\ \E g \in Range(graphs) : \E w \in Written :
           /\ w.name = g.data_file
           /\ Len(w.campaign_data) = 2
           /\ g.avg_data.val = <<1150, 2100>>

\* a log made of whole 3-line groups whose third lines all are branches lines
GroupLog(lines) ==
    /\ Len(lines) % 3 = 0
    /\ \A k \in 1..(Len(lines) \div 3) :
           \E n \in Hits, m \in Totals : lines[3 * k] = BranchesLine(n, m)

C6_OneTablePerPair ==
    Collected =>
        /\ \A p \in QualifyingPairs :
               /\ OutputFilename(p[1], p[2]) \in DOMAIN data_files
               /\ {FirstToken(l) :
                      l \in Range(CampaignLinesOf(data_files[OutputFilename(p[1], p[2])].lines))}
                      = QualifyingLabels(p)
        /\ \A p, q \in QualifyingPairs :
               p # q => OutputFilename(p[1], p[2]) # OutputFilename(q[1], q[2])
        /\ \A m, n \in 1..Len(writes) : m # n => writes[m].name # writes[n].name
        /\ Cardinality(DOMAIN data_files) = files_created

C8_AscendingLabels ==
    \A name \in DOMAIN data_files :
        LET lines == data_files[name].lines
        IN  \A i, j \in 1..Len(lines) :
                i < j =>
                    /\ FirstToken(lines[i]) # <<"a", "v", "g">>
                    /\ FirstToken(lines[j]) # <<"a", "v", "g">>
                           => IntOf(FirstToken(lines[i])) <= IntOf(FirstToken(lines[j]))

C8_Witness ==
    \E name \in DOMAIN data_files :
        LET lines == data_files[name].lines
        IN  /\ Len(lines) = 3
            /\ FirstToken(lines[1]) = <<"2">>
            /\ FirstToken(lines[2]) = <<"1", "0">>
            /\ FirstToken(lines[3]) = <<"a", "v", "g">>

\* the name of a table file without its _branch_count.txt
TableStem(name) == SubSeq(name, 1, Len(name) - 17)

LastUnderscore(s) == MaxOf({i \in 1..Len(s) : s[i] = "_"})

SplitsOnLastUnderscore(name, target_name, fuzzer_name) ==
    LET s == TableStem(name)
    IN  (\E i \in 1..Len(s) : s[i] = "_")
            => /\ target_name = SubSeq(s, 1, LastUnderscore(s) - 1)
               /\ fuzzer_name = DropFirst(s, LastUnderscore(s))

\* C9: a table file S_branch_count.txt whose S holds an underscore decodes to the
\* target before the last underscore of S and the fuzzer after it, in both renderers.
C9_SplitOnLastUnderscore ==
    /\ \A g \in Range(graphs) : SplitsOnLastUnderscore(g.data_file, g.target, g.fuzzer)
    /\ \A t \in DOMAIN target_fuzzers : \A f \in DOMAIN target_fuzzers[t] :
           SplitsOnLastUnderscore(target_fuzzers[t][f].data_file, t, f)

\* a table file with an average row
HasAverageRow(file) ==
    /\ file.readable
    /\ \E i \in 1..Len(file.lines) :
           Split(file.lines[i]) # <<>> /\ FirstToken(file.lines[i]) = <<"a", "v", "g">>

\* the table files that decode to a target
TablesOf(target_name) ==
    {name \in DOMAIN data_files :
        /\ Matches(name)
        /\ Len(DecodeFilename(name)) = 2
        /\ DecodeFilename(name)[1] = target_name}

DecodedTargets ==
    {DecodeFilename(name)[1] : name \in {n \in DOMAIN data_files : Matches(n)}}

\* C10: plot_comparison_graphs emits <target>_comparison.png exactly for the targets
\* to which at least 2 table files with an average row decode.
C10_ComparisonIffTwoTables ==
    pc = "done" =>
        \A target_name \in DecodedTargets :
            (\E c \in Range(comparisons) : c.target = target_name)
                <=> Cardinality({name \in TablesOf(target_name) :
                                    HasAverageRow(data_files[name])}) >= 2

\* C11: no item of a batch ends the run: whatever the coverage tree and the data
\* directory hold, neither the aggregation loop nor a rendering loop is left by an
\* exception.
C11_NoItemAborts == pc # "crashed"

\* the directory the started program reads is absent or has no entry
InputMissing ==
    \/ entry = "plot_coverage" /\ (<<"c", "o", "v", "e", "r", "a", "g", "e">> \notin dirs \/ tree = <<>>)
    \/ entry = "plot_graphs_only"
           /\ (<<"g", "r", "a", "p", "h", "/", "d", "a", "t", "a">> \notin dirs \/ DOMAIN data_files = {})

\* sys.exit(1) and nothing else: no directory, table file or chart is made
ExitsBeforeWork ==
    /\ pc' = "exit1"
    /\ UNCHANGED <<dirs, data_files, writes, graphs, comparisons>>

\* C12: when the input directory of the started program (workdir/coverage for
\* plot_coverage, the data directory for plot_graphs_only) is absent or empty, the
\* only step the program takes is the exit with status 1, before any output
\* directory, table file or chart is created.
C12_ExitBeforeWork == [][InputMissing => ExitsBeforeWork]_vars

\* the 1-based positions of the inspected lines (0-based 2, 5, 8, ...) that hold a
\* branches line "(N of M branches)"
MatchingInspected(lines) ==
    {p \in 1..Len(lines) :
        /\ p % 3 = 0
        /\ \E n \in Hits, m \in Totals : lines[p] = BranchesLine(n, m)}

\* the column a matching inspected line lands in: one per matching line up to it
ColumnOf(lines, p) == Cardinality({q \in MatchingInspected(lines) : q <= p})

LongestRow(c) == MaxOf({Len(c.series[i]) : i \in 1..Len(c.series)})

\* C14: the X axis of every comparison chart runs from 0 to 30 * (L - 1), L being the
\* length of the longest average row drawn on it, so that no plotted point lies
\* outside the axis.
C14_XAxisCoversLongest ==
    \A c \in Range(comparisons) :
        /\ c.xlim = <<0, Interval * (LongestRow(c) - 1)>>
        /\ \A i \in 1..Len(c.series) : \A k \in 1..Len(c.series[i]) :
               TimePoints(Len(c.series[i]))[k] <= c.xlim[2]

\* the last line of a written table is an average line with at least one value
EndsWithAverages(lines) ==
    LET last == Split(lines[Len(lines)])
    IN  last[1] = <<"a", "v", "g">> /\ Len(last) >= 2

\* C15: every table the aggregator writes has campaigns with at least one value each
\* and ends with an average line of at least one value; and in the progress chart
\* drawn from such a table every campaign has at least as many values as the chart
\* has points and is plotted.
C15_AverageAlwaysPresent ==
    /\ \A w \in Written :
           /\ \A c \in Range(w.campaign_data) : Len(c.branch_counts) >= 1
           /\ ShortestSample(w.campaign_data) >= 1
           /\ ~w.averages.isNone
           /\ Len(w.averages.val) >= 1
           /\ EndsWithAverages(w.lines)
    /\ \A name \in DOMAIN data_files : EndsWithAverages(data_files[name].lines)
    /\ \A g \in Range(graphs) :
           /\ Truthy(g.avg_data)
           /\ g.num_points = Len(g.avg_data.val)
           /\ g.num_points >= 1
           /\ \A c \in Range(g.campaign_data) : Len(c.values) >= g.num_points
           /\ Len(g.plotted) = Len(g.campaign_data)

C15_Witness ==
    \E g \in Range(graphs) : \E w \in Written :
        /\ w.name = g.data_file
        /\ Len(g.campaign_data) = 2
        /\ Len(g.plotted) = 2
        /\ g.num_points = 2
        /\ \E c \in Range(g.campaign_data) : Len(c.values) = 3

====
